---- MODULE Spec2Model ----
(***************************************************************************)
(* Model of cloudigrade's usage-calculation task protocol                  *)
(* (src/cloudigrade/api/tasks.py): calculate_max_concurrent_usage_task,    *)
(* process_instance_event, _delete_cloud_accounts and _delete_user running *)
(* on concurrent workers over one shared store, with the per-user locks of *)
(* lock_task_for_user_ids.                                                 *)
(*                                                                         *)
(* Workers of one kind are interchangeable, so the executions in flight    *)
(* are kept as a bag of execution records rather than as an array indexed  *)
(* by worker: two states that differ only in which worker runs which       *)
(* execution are one state.                                                *)
(***************************************************************************)
EXTENDS Integers, FiniteSets, Sequences, Bags, TLC

\* ---- bounds -------------------------------------------------------------
NumUsers == 1
NumDates == 1
NumWorkers == 2
MaxTasks == 2
NumDeleters == 1
NumAccounts == 1
NumDays == 2
NumInstances == 2
MaxEvents == 3
MaxRuns == 2
NumLocked == 2

\* The ticks of a calendar day: timestamps are ticks, a day is TicksPerDay
\* consecutive ticks.
TicksPerDay == 2

Users == 1..NumUsers
\* The calendar days up to the present day; calculations are requested for
\* the first NumDates of them.
Dates == 1..NumDays
RequestDates == 1..NumDates
TaskIds == 1..MaxTasks
Accounts == 1..NumAccounts
Instances == 1..NumInstances
Times == 1..(NumDays * TicksPerDay)

\* ---- values -------------------------------------------------------------
SCHEDULED == "SCHEDULED"
COMPLETE == "COMPLETE"
ERROR == "ERROR"
NONE == "NONE"

\* The row a lookup by task id finds when no record exists.
NoTask == [user |-> 0, date |-> 0, status |-> NONE]

\* How an execution ended: not yet, by return, or by a raised exception.
NoResult == [kind |-> "none", error |-> "none"]
Returned == [kind |-> "returned", error |-> "none"]
Raised(e) == [kind |-> "raised", error |-> e]

\* The id of the user a cloud account belongs to (the user_id column of
\* the account, which an account object keeps after its row is deleted).
AccountUser(a) == ((a - 1) % NumUsers) + 1

\* The cloud account and the user an instance belongs to.
InstanceAccount(i) == ((i - 1) % NumAccounts) + 1
InstanceUser(i) == AccountUser(InstanceAccount(i))

\* end_time = None: the Run is open.
NoEnd == 0

\* The kinds of InstanceEvent.
power_on == "power_on"
power_off == "power_off"

\* No snapshot stored for a (user, date).
NoPeak == [count |-> -1, vcpu |-> 0, memory |-> 0]

\* The instance types, and the type an instance is launched with.
NumTypes == 2
Types == 1..NumTypes
InstanceType(i) == ((i - 1) % NumTypes) + 1

\* The shape of an instance type: its vcpu and memory.
Vcpu(type) == type
Memory(type) == 2 * type

\* The users an operation that locks several users at once can name.
LockableUsers == 1..NumLocked

\* UserTaskLock rows are keyed by an integer id.
LockKeys == Users \cup Accounts \cup LockableUsers

VARIABLES
    users,      \* User table: ids of the existing users
    nextUser,   \* next fresh id the User table hands out
    accounts,   \* CloudAccount table: ids of the existing accounts
    tasks,      \* ConcurrentUsageCalculationTask table, by task id
    msgs,       \* task queue: submitted (task id, user, date) messages
    nextId,     \* next fresh task id the queue hands out
    usage,      \* ConcurrentUsage table: number of rows per (user, date)
    lockHolder, \* UserTaskLock: the kind of context inside the lock, per id
    calcs,      \* bag of executions of calculate_max_concurrent_usage_task
    dels,       \* bag of executions of _delete_cloud_accounts
    commits,    \* history: committed usage computations per task id
    peak,       \* ConcurrentUsage table: the stored snapshot per (user, date)
    events,     \* InstanceEvent table: the saved events
    runs,       \* Run table: the rows of the persisted Runs
    tie,        \* the kind recalculate_runs scans first, per timestamp
    procs,      \* bag of executions of process_instance_event
    lockOps     \* bag of operations that lock several users at once

vars == <<users, nextUser, accounts, tasks, msgs, nextId, usage, lockHolder, calcs,
          dels, commits, peak, events, runs, tie, procs, lockOps>>

\* The tables process_instance_event works on, and the order in which the
\* build scans saved events of one timestamp.
runVars == <<events, runs, tie>>

storeVars ==
    <<users, nextUser, accounts, tasks, msgs, nextId, usage, peak, runVars>>

\* An execution of calculate_max_concurrent_usage_task:
\*   pc       position in the function
\*   req      the delivery: task id (self.request.id), user_id, date
\*   userFound history: the User row existed when line 587 looked for it
\*   calcTask the calculation_task object read at line 597
\*   snapshot the snapshot line 627 computed
\*   exc      the exception caught at line 637
\*   result   how the execution ended
\*   overlap  history: another delivery of the same task id was executing
\*            while this one was
Bag1(r) == SetToBag({r})
Replace(bag, old, new) == (bag (-) Bag1(old)) (+) Bag1(new)

\* The orders in which an implementation of the scan can take saved
\* events of one timestamp: the kind that comes first at each timestamp
\* (the order is that of the query's result, which the timestamp alone does
\* not fix; it is the same every time the events are read).
ScanOrders == [Times -> {power_on, power_off}]

\* The power_on first at every timestamp. The order is read by the
\* recalculation of SpecRunsTie alone, which starts from every order.
OnFirst == [t \in Times |-> power_on]

Init ==
    /\ users = Users
    /\ nextUser = NumUsers + 1
    /\ accounts = Accounts
    /\ tasks = [t \in TaskIds |-> NoTask]
    /\ msgs = {}
    /\ nextId = 1
    /\ usage = [u \in Users |-> [d \in Dates |-> 0]]
    /\ lockHolder = [k \in LockKeys |-> "none"]
    /\ calcs = EmptyBag
    /\ dels = EmptyBag
    /\ commits = [t \in TaskIds |-> 0]
    /\ peak = [u \in Users |-> [d \in Dates |-> NoPeak]]
    /\ events = {}
    /\ runs = {}
    /\ tie = OnFirst
    /\ procs = EmptyBag
    /\ lockOps = EmptyBag

\* ---- Task Lock Manager: lock_task_for_user_ids (util.misc) ---------------
\* Every lock of ids is free.
LockFree(ids) == \A k \in ids : lockHolder[k] = "none"

\* The locks after a context of kind c has entered the block for ids.
Acquired(ids, c) ==
    [k \in LockKeys |-> IF k \in ids THEN c ELSE lockHolder[k]]

\* The locks after the context has left the block for ids (commit or
\* rollback).
Released(ids) ==
    [k \in LockKeys |-> IF k \in ids THEN "none" ELSE lockHolder[k]]

\* Mutant: the locks are taken in the order the ids were given in.
Canonical_AsGiven(ids) == ids

\* The ids in the canonical order of acquisition: sorted ascending.
Canonical(ids) == SortSeq(ids, LAMBDA a, b : a < b)

\* The lists of ids an operation can hand over: users in any order.
IdLists ==
    {s \in UNION {[1..n -> LockableUsers] : n \in 1..NumLocked} :
        \A i, j \in DOMAIN s : i # j => s[i] # s[j]}

\* The operations that lock several users at once, in flight and finished:
\*   ids  the user ids as the caller gave them
\*   got  the number of locks taken so far
\*   pc   position: acquiring, inside the block, done, failed
LockOps == BagToSet(lockOps)

\* The id the operation acquires next, and the ids whose locks it holds.
NextLockId(o) == Canonical(o.ids)[o.got + 1]
HeldIds(o) == {Canonical(o.ids)[k] : k \in 1..o.got}

\* An operation asks for the locks of the given users.
LockOpStart(ids) ==
    /\ BagCardinality(lockOps) < NumWorkers
    /\ lockOps' = lockOps (+) Bag1([ids |-> ids, got |-> 0, pc |-> "acquire"])
    /\ UNCHANGED <<storeVars, lockHolder, calcs, dels, commits, procs>>

\* The next lock in canonical order is free: the operation takes it, and
\* enters the block once it holds them all.
LockOpAcquire(o) ==
    /\ o.pc = "acquire"
    /\ LockFree({NextLockId(o)})
    /\ lockHolder' = Acquired({NextLockId(o)}, "multi")
    /\ lockOps' = Replace(lockOps, o,
                      [o EXCEPT !.got = @ + 1,
                                !.pc = IF o.got + 1 = Len(o.ids)
                                       THEN "held" ELSE "acquire"])
    /\ UNCHANGED <<storeVars, calcs, dels, commits, procs>>

\* The next lock stays held by another context until the timeout: the
\* operation fails and the locks it took are released.
LockOpTimeout(o) ==
    /\ o.pc = "acquire"
    /\ ~LockFree({NextLockId(o)})
    /\ lockHolder' = Released(HeldIds(o))
    /\ lockOps' = Replace(lockOps, o, [o EXCEPT !.got = 0, !.pc = "failed"])
    /\ UNCHANGED <<storeVars, calcs, dels, commits, procs>>

\* The operation leaves the block: every lock it holds is released.
LockOpRelease(o) ==
    /\ o.pc = "held"
    /\ lockHolder' = Released(HeldIds(o))
    /\ lockOps' = Replace(lockOps, o, [o EXCEPT !.got = 0, !.pc = "done"])
    /\ UNCHANGED <<storeVars, calcs, dels, commits, procs>>

\* A step an operation takes without waiting for a timeout.
LockOpProceed(o) == LockOpAcquire(o) \/ LockOpRelease(o)

\* ---- Scheduler: schedule_concurrent_calculation_task (api.util) ----------
\* Mutant: the scheduler does not look for an outstanding record.
HasScheduled_Never(date, user_id) == FALSE

\* A SCHEDULED record is outstanding for (user_id, date).
HasScheduled(date, user_id) ==
    \E t \in TaskIds :
        tasks[t] = [user |-> user_id, date |-> date, status |-> SCHEDULED]

\* The scheduler can serve the request within the bound on task ids.
CanSchedule(date, user_id) ==
    HasScheduled(date, user_id) \/ nextId <= MaxTasks

\* Task table after scheduling: the outstanding record is reused, else a
\* fresh record is created in SCHEDULED state.
ScheduledTasks(date, user_id) ==
    IF HasScheduled(date, user_id)
    THEN tasks
    ELSE [tasks EXCEPT ![nextId] =
             [user |-> user_id, date |-> date, status |-> SCHEDULED]]

\* Queue after scheduling: the fresh task is submitted.
ScheduledMsgs(date, user_id) ==
    IF HasScheduled(date, user_id)
    THEN msgs
    ELSE msgs \cup {[id |-> nextId, user |-> user_id, date |-> date]}

ScheduledNextId(date, user_id) ==
    IF HasScheduled(date, user_id) THEN nextId ELSE nextId + 1

\* ---- Usage Calculator: calculate_max_concurrent_usage (api.util) ---------
\* ConcurrentUsage table after the snapshot of (user_id, date) is persisted:
\* the prior snapshot of the key is replaced.
SavedUsage(date, user_id) ==
    [u \in Users |-> [d \in Dates |->
        IF u = user_id /\ d = date THEN 1 ELSE usage[u][d]]]

\* The first tick of a day, the first tick after it, and the day of a tick.
DayStart(date) == (date - 1) * TicksPerDay + 1
DayEnd(date) == date * TicksPerDay + 1
DayOf(t) == ((t - 1) \div TicksPerDay) + 1

\* The present day.
Today == NumDays

\* The user's Runs whose interval intersects the day.
RunsOfDay(rs, date, user_id) ==
    {r \in rs : /\ InstanceUser(r.instance) = user_id
                /\ r.start < DayEnd(date)
                /\ (r.end = NoEnd \/ r.end > DayStart(date))}

\* A Run clipped to the boundaries of the day; an open Run is still running
\* at the end of the day.
ClippedStart(r, date) ==
    IF r.start < DayStart(date) THEN DayStart(date) ELSE r.start

ClippedEnd(r, date) ==
    IF r.end = NoEnd \/ r.end > DayEnd(date) THEN DayEnd(date) ELSE r.end

\* The start and end events of the clipped Runs.
SweepEvents(rs, date, user_id) ==
    {[time |-> ClippedStart(r, date), on |-> TRUE, run |-> r] :
        r \in RunsOfDay(rs, date, user_id)}
    \cup
    {[time |-> ClippedEnd(r, date), on |-> FALSE, run |-> r] :
        r \in RunsOfDay(rs, date, user_id)}

\* Mutant: at one instant the sweep takes the starts before the ends.
SweepBefore_StartsFirst(a, b) ==
    a.time < b.time \/ (a.time = b.time /\ a.on /\ ~b.on)

\* The order of the sweep: by time, and at one instant the ends before the
\* starts (a Run that ends when another starts is not active with it).
SweepBefore(a, b) ==
    a.time < b.time \/ (a.time = b.time /\ ~a.on /\ b.on)

\* The events in the order of the sweep.
RECURSIVE SweepOrder(_)
SweepOrder(S) ==
    IF S = {} THEN <<>>
    ELSE LET x == CHOOSE a \in S : \A b \in S : ~SweepBefore(b, a)
         IN <<x>> \o SweepOrder(S \ {x})

\* Nothing active.
ZeroPeak == [count |-> 0, vcpu |-> 0, memory |-> 0]

\* The running totals after one event of the sweep.
SweepStep(cur, e) ==
    IF e.on
    THEN [count |-> cur.count + 1,
          vcpu |-> cur.vcpu + Vcpu(e.run.type),
          memory |-> cur.memory + Memory(e.run.type)]
    ELSE [count |-> cur.count - 1,
          vcpu |-> cur.vcpu - Vcpu(e.run.type),
          memory |-> cur.memory - Memory(e.run.type)]

\* The sweep: the totals at the first instant where the count is highest.
RECURSIVE Sweep(_, _, _)
Sweep(seq, cur, best) ==
    IF seq = <<>> THEN best
    ELSE LET new == SweepStep(cur, Head(seq))
         IN Sweep(Tail(seq), new,
                  IF new.count > best.count THEN new ELSE best)

\* The snapshot of (user_id, date) computed from the Runs rs.
MaxConcurrent(rs, date, user_id) ==
    Sweep(SweepOrder(SweepEvents(rs, date, user_id)), ZeroPeak, ZeroPeak)

\* ConcurrentUsage values after the snapshot of (user_id, date) is persisted.
SavedPeak(date, user_id) ==
    [peak EXCEPT ![user_id][date] = MaxConcurrent(runs, date, user_id)]

\* ---- calculate_max_concurrent_usage_task ---------------------------------
\* Mutant: the task does not look for the user.
UserExists_Unchecked(user_id) == TRUE

\* line 587: User.objects.filter(id=user_id).exists()
UserExists(user_id) == user_id \in users

\* Mutant: the block is entered with an empty list of ids.
LockIds_Empty(user_id) == {}

\* line 595: the ids handed to lock_task_for_user_ids
LockIds(user_id) == {user_id}

\* lines 596-600: objects.get(task_id=task_id) found a row
TaskFound(rec) == rec.status # NONE

\* Mutant: the status of the record is not checked.
StatusIsScheduled_Unchecked(rec) == TRUE

\* Mutant: a task that ended in ERROR is run again.
StatusIsScheduled_OrError(rec) == rec.status \in {SCHEDULED, ERROR}

\* line 611: the status read is SCHEDULED
StatusIsScheduled(rec) == rec.status = SCHEDULED

\* lines 629-630: calculation_task.status = COMPLETE; calculation_task.save()
\* save() updates the row of the object, and inserts it when it is gone.
SavedComplete(ts, id, rec) ==
    [ts EXCEPT ![id] = [rec EXCEPT !.status = COMPLETE]]

\* Mutant: the handler does not record the failure.
ErrorUpdate_Skipped(ts, id) == ts

\* lines 643-645: objects.filter(task_id=task_id).update(status=ERROR)
ErrorUpdate(ts, id) ==
    [t \in TaskIds |->
        IF t = id /\ ts[t].status # NONE
        THEN [ts[t] EXCEPT !.status = ERROR]
        ELSE ts[t]]

\* Mutant: the handler swallows the exception.
Reraise_Swallowed(e) == Returned

\* line 646: raise unknown_exception
Reraise(e) == Raised(e)

\* The executions in flight and finished.
Calcs == BagToSet(calcs)

\* The workers that are taken: the tasks of this module run on one pool of
\* workers, and an execution keeps its worker in the model after it ended.
Busy == BagCardinality(calcs) + BagCardinality(dels)

\* Executing: between taking the delivery and the end of the function.
Executing(c) == c.pc # "done"

\* In the with block of line 595.
InCalcBlock(c) == c.pc \in {"get", "calc", "save"}

\* The execution after it has noticed another delivery of task id running.
Overlapped(c, id) ==
    IF Executing(c) /\ c.req.id = id THEN [c EXCEPT !.overlap = TRUE] ELSE c

\* lines 571-588: a worker takes a delivery and checks that the user exists.
CalcStart(m) ==
    /\ m \in msgs
    /\ Busy < NumWorkers
    /\ LET o == \E c \in Calcs : Executing(c) /\ c.req.id = m.id
           new == [pc |-> IF UserExists(m.user) THEN "lock" ELSE "done",
                   req |-> m,
                   userFound |-> m.user \in users,
                   calcTask |-> NoTask,
                   snapshot |-> NoPeak,
                   exc |-> "none",
                   result |-> IF UserExists(m.user) THEN NoResult ELSE Returned,
                   overlap |-> o]
           Mark(c) == Overlapped(c, m.id)
       IN calcs' = BagOfAll(Mark, calcs) (+) Bag1(new)
    /\ UNCHANGED <<storeVars, lockHolder, dels, commits, procs, lockOps>>

\* line 595: the lock is free and the worker enters the block.
CalcAcquire(c) ==
    /\ c.pc = "lock"
    /\ LockFree(LockIds(c.req.user))
    /\ lockHolder' = Acquired(LockIds(c.req.user), "calc")
    /\ calcs' = Replace(calcs, c, [c EXCEPT !.pc = "get"])
    /\ UNCHANGED <<storeVars, dels, commits, procs, lockOps>>

\* line 595: the lock stays held by another context until the timeout.
CalcLockTimeout(c) ==
    /\ c.pc = "lock"
    /\ ~LockFree(LockIds(c.req.user))
    /\ calcs' = Replace(calcs, c,
                    [c EXCEPT !.pc = "except", !.exc = "LockTimeout"])
    /\ UNCHANGED <<storeVars, lockHolder, dels, commits, procs, lockOps>>

\* Mutant: the missing record is logged and nothing is scheduled.
CalcTaskMissing_NoReschedule(c) ==
    /\ c.pc = "get"
    /\ ~TaskFound(tasks[c.req.id])
    /\ lockHolder' = Released(LockIds(c.req.user))
    /\ calcs' = Replace(calcs, c,
                    [c EXCEPT !.pc = "done", !.result = Returned])
    /\ UNCHANGED <<storeVars, dels, commits, procs, lockOps>>

\* lines 596-609: no record for the task id: schedule a new task and return.
CalcTaskMissing(c) ==
    /\ c.pc = "get"
    /\ ~TaskFound(tasks[c.req.id])
    /\ CanSchedule(c.req.date, c.req.user)
    /\ tasks' = ScheduledTasks(c.req.date, c.req.user)
    /\ msgs' = ScheduledMsgs(c.req.date, c.req.user)
    /\ nextId' = ScheduledNextId(c.req.date, c.req.user)
    /\ lockHolder' = Released(LockIds(c.req.user))
    /\ calcs' = Replace(calcs, c,
                    [c EXCEPT !.pc = "done", !.result = Returned])
    /\ UNCHANGED <<users, nextUser, accounts, usage, dels, commits, peak,
                   runVars, procs, lockOps>>

\* Mutant: the early return is taken without leaving the lock block.
CalcNotScheduled_KeepsLock(c) ==
    /\ c.pc = "get"
    /\ TaskFound(tasks[c.req.id])
    /\ ~StatusIsScheduled(tasks[c.req.id])
    /\ calcs' = Replace(calcs, c,
                    [c EXCEPT !.pc = "done", !.calcTask = tasks[c.req.id],
                              !.result = Returned])
    /\ UNCHANGED <<storeVars, lockHolder, dels, commits, procs, lockOps>>

\* lines 596-599, 611-625: the record is not SCHEDULED: return.
CalcNotScheduled(c) ==
    /\ c.pc = "get"
    /\ TaskFound(tasks[c.req.id])
    /\ ~StatusIsScheduled(tasks[c.req.id])
    /\ lockHolder' = Released(LockIds(c.req.user))
    /\ calcs' = Replace(calcs, c,
                    [c EXCEPT !.pc = "done", !.calcTask = tasks[c.req.id],
                              !.result = Returned])
    /\ UNCHANGED <<storeVars, dels, commits, procs, lockOps>>

\* lines 596-599, 611: the record is SCHEDULED: go on to the computation.
CalcIsScheduled(c) ==
    /\ c.pc = "get"
    /\ TaskFound(tasks[c.req.id])
    /\ StatusIsScheduled(tasks[c.req.id])
    /\ calcs' = Replace(calcs, c,
                    [c EXCEPT !.pc = "calc", !.calcTask = tasks[c.req.id]])
    /\ UNCHANGED <<storeVars, lockHolder, dels, commits, procs, lockOps>>

\* Mutant: the snapshot is written to the store at once, outside the
\* transaction of the lock block.
CalcCompute_WritesThrough(c) ==
    /\ c.pc = "calc"
    /\ usage' = SavedUsage(c.req.date, c.req.user)
    /\ peak' = SavedPeak(c.req.date, c.req.user)
    /\ calcs' = Replace(calcs, c,
                    [c EXCEPT !.pc = "save",
                              !.snapshot = MaxConcurrent(runs, c.req.date,
                                                         c.req.user)])
    /\ UNCHANGED <<users, nextUser, accounts, tasks, msgs, nextId, runVars,
                   lockHolder, dels, commits, procs, lockOps>>

\* line 627: calculate_max_concurrent_usage computes the snapshot from the
\* Runs it reads now and returns; its write of the snapshot stays in the
\* open transaction of the lock block.
CalcCompute(c) ==
    /\ c.pc = "calc"
    /\ calcs' = Replace(calcs, c,
                    [c EXCEPT !.pc = "save",
                              !.snapshot = MaxConcurrent(runs, c.req.date,
                                                         c.req.user)])
    /\ UNCHANGED <<storeVars, lockHolder, dels, commits, procs, lockOps>>

\* line 627: calculate_max_concurrent_usage raises; the block is left by the
\* exception (rollback, lock released) and line 637 catches it.
CalcComputeFails(c) ==
    /\ c.pc = "calc"
    /\ lockHolder' = Released(LockIds(c.req.user))
    /\ calcs' = Replace(calcs, c,
                    [c EXCEPT !.pc = "except", !.exc = "CalcError"])
    /\ UNCHANGED <<storeVars, dels, commits, procs, lockOps>>

\* lines 629-636: status COMPLETE is saved, the block is left by return:
\* the transaction commits, with the snapshot line 627 computed, and the
\* lock is released.
CalcSave(c) ==
    /\ c.pc = "save"
    /\ tasks' = SavedComplete(tasks, c.req.id, c.calcTask)
    /\ usage' = SavedUsage(c.req.date, c.req.user)
    /\ peak' = [peak EXCEPT ![c.req.user][c.req.date] = c.snapshot]
    /\ commits' = [commits EXCEPT ![c.req.id] = @ + 1]
    /\ lockHolder' = Released(LockIds(c.req.user))
    /\ calcs' = Replace(calcs, c,
                    [c EXCEPT !.pc = "done", !.result = Returned])
    /\ UNCHANGED <<users, nextUser, accounts, msgs, nextId, dels, runVars,
                   procs, lockOps>>

\* lines 637-645: the handler sets the status to ERROR.
CalcExcept(c) ==
    /\ c.pc = "except"
    /\ tasks' = ErrorUpdate(tasks, c.req.id)
    /\ calcs' = Replace(calcs, c, [c EXCEPT !.pc = "reraise"])
    /\ UNCHANGED <<users, nextUser, accounts, msgs, nextId, usage, lockHolder,
                   dels, commits, peak, runVars, procs, lockOps>>

\* line 646: the handler re-raises the exception it caught.
CalcReraise(c) ==
    /\ c.pc = "reraise"
    /\ calcs' = Replace(calcs, c,
                    [c EXCEPT !.pc = "done", !.result = Reraise(c.exc)])
    /\ UNCHANGED <<storeVars, lockHolder, dels, commits, procs, lockOps>>

\* The worker dies.
Crashed == [kind |-> "crashed", error |-> "none"]

\* lines 595-636: the worker dies inside the lock block: its connection to
\* the store is lost, the open transaction is rolled back and the lock is
\* freed; the handler of line 637 does not run.
CalcCrash(c) ==
    /\ InCalcBlock(c)
    /\ lockHolder' = Released(LockIds(c.req.user))
    /\ calcs' = Replace(calcs, c,
                    [c EXCEPT !.pc = "done", !.result = Crashed])
    /\ UNCHANGED <<storeVars, dels, commits, procs, lockOps>>

\* ---- _delete_cloud_accounts ----------------------------------------------
\* The rows of a queryset, in id order.
RECURSIVE Rows(_)
Rows(S) ==
    IF S = {} THEN <<>>
    ELSE LET a == CHOOSE x \in S : \A y \in S : x <= y
         IN <<a>> \o Rows(S \ {a})

\* line 283: cloud_account.user fetches the User row of the account from
\* the store; the fetch raises User.DoesNotExist when the row is gone.
AccountUserFound(cloud_account) == AccountUser(cloud_account) \in users

\* The User row of an id; there is none when the user is gone.
UserRow(id) == CHOOSE u \in users : u = id

\* line 283: the ids handed to lock_task_for_user_ids: the id of the User
\* row fetched for the account.
DeleteLockIds(cloud_account) == {UserRow(AccountUser(cloud_account))}

\* The ids the execution has built its argument of line 283 from; it asks
\* for their locks, and releases them when the block is left, whatever has
\* become of the user since.
DeleteHeldIds(d) == d.ids

\* The executions of _delete_cloud_accounts in flight and finished:
\*   pc    position in the function: before line 283 (loop), waiting for
\*         the lock (wait), in the block (locked), ended
\*   list  the cloud accounts still to handle, the first being cloud_account
\*   ids   the argument of lock_task_for_user_ids, once it is evaluated
Dels == BagToSet(dels)

\* In the with block of line 283.
InDeleteBlock(d) == d.pc = "locked"

\* lines 238-239, 260-261, 272: the task starts iterating the accounts its
\* filter selects.
DeleteStart(filter) ==
    /\ BagCardinality(dels) < NumDeleters
    /\ Busy < NumWorkers
    /\ dels' = dels (+) Bag1(
           [pc |-> IF filter \cap accounts = {} THEN "done" ELSE "loop",
            list |-> Rows(filter \cap accounts),
            ids |-> {}])
    /\ UNCHANGED <<storeVars, lockHolder, calcs, commits, procs, lockOps>>

\* lines 238-239, 260-261, 272: the delete task is delivered once more
\* while executions of it exist (a duplicate delivery, a retry, or another
\* delete task whose filter selects the same accounts) and a further
\* worker takes it.
DeleteAgain(filter) ==
    /\ dels # EmptyBag
    /\ Busy < NumDeleters + 2
    /\ dels' = dels (+) Bag1(
           [pc |-> IF filter \cap accounts = {} THEN "done" ELSE "loop",
            list |-> Rows(filter \cap accounts),
            ids |-> {}])
    /\ UNCHANGED <<storeVars, lockHolder, calcs, commits, procs, lockOps>>

\* line 283: the argument [cloud_account.user.id] is evaluated: the User
\* row of the account is fetched and found; the execution goes on to ask
\* for the lock with the id it now holds.
DeleteFetchUser(d) ==
    /\ d.pc = "loop"
    /\ AccountUserFound(Head(d.list))
    /\ dels' = Replace(dels, d,
                   [d EXCEPT !.pc = "wait",
                             !.ids = DeleteLockIds(Head(d.list))])
    /\ UNCHANGED <<storeVars, lockHolder, calcs, commits, procs, lockOps>>

\* line 283: the lock of the id is free: enter the block. The user may
\* have been deleted since the fetch; the lock of its id is free then.
DeleteAcquire(d) ==
    /\ d.pc = "wait"
    /\ LockFree(DeleteHeldIds(d))
    /\ lockHolder' = Acquired(DeleteHeldIds(d), "del")
    /\ dels' = Replace(dels, d, [d EXCEPT !.pc = "locked"])
    /\ UNCHANGED <<storeVars, calcs, commits, procs, lockOps>>

\* line 283: the lock stays held until the timeout: the task fails.
DeleteLockTimeout(d) ==
    /\ d.pc = "wait"
    /\ ~LockFree(DeleteHeldIds(d))
    /\ dels' = Replace(dels, d, [d EXCEPT !.pc = "failed"])
    /\ UNCHANGED <<storeVars, lockHolder, calcs, commits, procs, lockOps>>

\* line 283: the user of the account is gone: the fetch of cloud_account.user
\* raises User.DoesNotExist before lock_task_for_user_ids is called and
\* outside the try of line 290: the task fails, no lock is taken.
DeleteUserMissing(d) ==
    /\ d.pc = "loop"
    /\ ~AccountUserFound(Head(d.list))
    /\ dels' = Replace(dels, d, [d EXCEPT !.pc = "failed"])
    /\ UNCHANGED <<storeVars, lockHolder, calcs, commits, procs, lockOps>>

\* lines 290-296: delete the account unless it is gone already, leave the
\* block and go on with the next account.
DeleteAccount(d) ==
    /\ d.pc = "locked"
    /\ accounts' = accounts \ {Head(d.list)}
    /\ lockHolder' = Released(DeleteHeldIds(d))
    /\ dels' = Replace(dels, d,
                   [pc |-> IF Tail(d.list) = <<>> THEN "done" ELSE "loop",
                    list |-> Tail(d.list),
                    ids |-> {}])
    /\ UNCHANGED <<users, nextUser, tasks, msgs, nextId, usage, calcs,
                   commits, peak, runVars, procs, lockOps>>

\* ---- create_from_sources_kafka_message --------------------------------------
\* lines 167-175: the message names an account number that has no user;
\* get_or_create inserts the User row, under an id no row has had before,
\* and the row of its task lock, which is free. A message that is dropped
\* by the checks of lines 99-165, or whose account number has a user,
\* changes no table. The cloud account itself is created by the task that
\* line 185 queues.
CreateFromSourcesKafkaMessage ==
    /\ nextUser <= NumUsers
    /\ users' = users \cup {nextUser}
    /\ nextUser' = nextUser + 1
    /\ UNCHANGED <<accounts, tasks, msgs, nextId, usage, lockHolder, calcs,
                   dels, commits, peak, runVars, procs, lockOps>>

\* ---- _delete_user ----------------------------------------------------------
\* lines 649-656: a user without cloud accounts is deleted; the delete
\* cascades to the user's task records and ConcurrentUsage rows.
DeleteUser(user) ==
    /\ user \in users
    /\ ~\E a \in accounts : AccountUser(a) = user
    /\ users' = users \ {user}
    /\ tasks' = [t \in TaskIds |->
                    IF tasks[t].user = user THEN NoTask ELSE tasks[t]]
    /\ usage' = [usage EXCEPT ![user] = [d \in Dates |-> 0]]
    /\ peak' = [peak EXCEPT ![user] = [d \in Dates |-> NoPeak]]
    /\ UNCHANGED <<nextUser, accounts, msgs, nextId, lockHolder, calcs, dels,
                   commits, runVars, procs, lockOps>>

\* ---- Run Normalizer: normalize_runs (api.util) ------------------------------
\* A Run of an instance, with the instance type it runs as.
Run(i, type, start, end) ==
    [instance |-> i, type |-> type, start |-> start, end |-> end]

\* The row of the Run table that holds a saved Run: every save inserts a
\* row of its own (the table is a bag of Runs), and a row that is equal in
\* every column to others of the table is told apart from them by its
\* number among them.
RunRow(r, n) ==
    [instance |-> r.instance, type |-> r.type, start |-> r.start,
     end |-> r.end, row |-> n]

\* The row holds a Run equal to r in every column.
SameRun(x, r) ==
    /\ x.instance = r.instance
    /\ x.type = r.type
    /\ x.start = r.start
    /\ x.end = r.end

\* run.save() for each of the new Runs: the table rs with their rows added.
SaveRuns(rs, new) ==
    rs \cup {RunRow(r, 1 + Cardinality({x \in rs : SameRun(x, r)})) :
                r \in new}

\* The saved events of an instance.
EventsOf(evs, i) == {e \in evs : e.instance = i}

\* The chronological orders of a set of events: events of one timestamp
\* come in any order.
RECURSIVE ChronologicalOrders(_)
ChronologicalOrders(S) ==
    IF S = {} THEN {<<>>}
    ELSE UNION {{<<e>> \o o : o \in ChronologicalOrders(S \ {e})} :
                   e \in {x \in S : \A y \in S : x.time <= y.time}}

\* The scan over the ordered events of one instance; open holds the
\* instance, the start and the type of the Run that is open (those of the
\* power_on that opened it), out the Runs closed so far.
RECURSIVE NormalizeScan(_, _, _)
NormalizeScan(seq, open, out) ==
    IF seq = <<>>
    THEN out \cup {Run(s[1], s[3], s[2], NoEnd) : s \in open}
    ELSE LET e == Head(seq)
         IN IF e.kind = power_on
            THEN NormalizeScan(Tail(seq),
                     IF open = {} THEN {<<e.instance, e.time, e.type>>}
                     ELSE open,
                     out)
            ELSE NormalizeScan(Tail(seq), {},
                     out \cup {Run(s[1], s[3], s[2], e.time) : s \in open})

\* normalize_runs for the ordered events of one instance.
NormalizeRuns(seq) == NormalizeScan(seq, {}, {})

\* ---- Run Recalculator: recalculate_runs (api.util) ---------------------------
\* The Runs of the event's instance that the event can affect: those that
\* start at or after its timestamp and those that span it.
Affected(rs, event) ==
    {r \in rs :
        /\ r.instance = event.instance
        /\ \/ r.start >= event.time
           \/ r.start <= event.time /\ (r.end = NoEnd \/ r.end > event.time)}

\* The earliest instant the recalculation reaches back to.
EarliestAffected(rs, event) ==
    LET S == {event.time} \cup {r.start : r \in Affected(rs, event)}
    IN CHOOSE t \in S : \A u \in S : t <= u

\* The Run tables the recalculation can leave: the affected Runs are
\* removed and the Runs rebuilt from the saved events, the new one
\* included, are persisted.
RecalculatedRuns(evs, rs, event) ==
    {SaveRuns(rs \ Affected(rs, event), NormalizeRuns(o)) :
        o \in ChronologicalOrders(
                 {e \in EventsOf(evs, event.instance) :
                     e.time >= EarliestAffected(rs, event)})}

\* The sequence o has events of one timestamp in the given scan order.
TieOrdered(o, order) ==
    \A i, j \in 1..Len(o) :
        (i < j /\ o[i].time = o[j].time /\ o[i].kind # o[j].kind)
        => o[i].kind = order[o[i].time]

\* recalculate_runs of a build that scans events of one timestamp in the
\* given order: the affected Runs are removed and the Runs rebuilt from the
\* saved events in that order are persisted.
RecalculatedRunsTie(evs, rs, event, order) ==
    {SaveRuns(rs \ Affected(rs, event), NormalizeRuns(o)) :
        o \in {x \in ChronologicalOrders(
                        {e \in EventsOf(evs, event.instance) :
                            e.time >= EarliestAffected(rs, event)}) :
                  TieOrdered(x, order)}}

\* ---- calculate_max_concurrent_usage_from_runs (api.util) --------------------
\* The dates from the given one through the present day that have no
\* SCHEDULED task for the user.
DatesToSchedule(date, user_id) ==
    {d \in Dates : d >= date /\ d <= Today /\ ~HasScheduled(d, user_id)}

\* The scheduler can serve the dates within the bound on task ids.
CanScheduleFrom(date, user_id) ==
    nextId + Cardinality(DatesToSchedule(date, user_id)) <= MaxTasks + 1

\* The fresh task id the scheduler gives to date d.
FreshId(date, user_id, d) ==
    nextId + Cardinality({x \in DatesToSchedule(date, user_id) : x < d})

\* Task table, queue and next id after a calculation was scheduled for
\* every date from the given one through the present day.
ScheduledTasksFrom(date, user_id) ==
    [t \in TaskIds |->
        IF \E d \in DatesToSchedule(date, user_id) :
               t = FreshId(date, user_id, d)
        THEN [user |-> user_id,
              date |-> CHOOSE d \in DatesToSchedule(date, user_id) :
                           t = FreshId(date, user_id, d),
              status |-> SCHEDULED]
        ELSE tasks[t]]

ScheduledMsgsFrom(date, user_id) ==
    msgs \cup {[id |-> FreshId(date, user_id, d), user |-> user_id, date |-> d] :
                 d \in DatesToSchedule(date, user_id)}

ScheduledNextIdFrom(date, user_id) ==
    nextId + Cardinality(DatesToSchedule(date, user_id))

\* ---- process_instance_event ---------------------------------------------------
\* Mutant: the filter leaves out the Runs that are still open.
RunFilter_NoOpen(r, event) ==
    \/ r.start > event.time
    \/ r.start <= event.time /\ r.end # NoEnd /\ r.end > event.time

\* lines 431-435: after_run | during_run | during_run_no_end
RunFilter(r, event) ==
    \/ r.start > event.time
    \/ r.start <= event.time /\ r.end # NoEnd /\ r.end > event.time
    \/ r.start <= event.time /\ r.end = NoEnd

\* line 438: Run.objects.filter(filters, instance=instance).exists()
RunExists(rs, event) ==
    \E r \in rs : r.instance = event.instance /\ RunFilter(r, event)

\* The event was saved during log analysis; the number of saved events is
\* bounded.
EventSaved(event) ==
    /\ Cardinality(events \cup {event}) <= MaxEvents
    /\ events' = events \cup {event}

\* The Run table becomes rs; the number of its rows is bounded as the
\* number of saved events is.
RunsSaved(rs) ==
    /\ Cardinality(rs) <= MaxEvents
    /\ runs' = rs

\* The events log analysis can save for an instance; an event carries the
\* instance type valid at its moment: any type for an instance that is
\* resized between its events, else the type the instance is launched with.
ResizedInstanceEvents(i) ==
    [instance : {i}, kind : {power_on, power_off}, time : Times, type : Types]

InstanceEvents(i) ==
    {e \in ResizedInstanceEvents(i) : e.type = InstanceType(i)}

\* ---- process_instance_event on concurrent workers -----------------------------
\* The executions of process_instance_event in flight and finished:
\*   event  the event the call was given
\*   pc     position: before the query of line 438 (check), in one of
\*          the two branches (recalculate, create), after the save of
\*          line 456 (calculate), done
\*   found  the result of the query of line 438
\* The function takes no lock and opens no transaction, so another
\* execution can run between its query and its writes.
Procs == BagToSet(procs)

\* lines 416-436: a worker is given an event that log analysis has saved.
ProcStart(event) ==
    /\ BagCardinality(procs) < NumWorkers
    /\ EventSaved(event)
    /\ procs' = procs (+) Bag1([event |-> event, pc |-> "check",
                                found |-> FALSE])
    /\ UNCHANGED <<users, nextUser, accounts, tasks, msgs, nextId, usage,
                   peak, runs, tie, lockHolder, calcs, dels, commits,
                   lockOps>>

\* lines 438-440: the query for a Run at or after the event chooses the
\* branch.
ProcCheck(p) ==
    /\ p.pc = "check"
    /\ procs' = Replace(procs, p,
                    [p EXCEPT !.found = RunExists(runs, p.event),
                              !.pc = IF RunExists(runs, p.event)
                                     THEN "recalculate"
                                     ELSE IF p.event.kind = power_on
                                          THEN "create"
                                          ELSE "done"])
    /\ UNCHANGED <<storeVars, lockHolder, calcs, dels, commits, lockOps>>

\* line 439: recalculate_runs rebuilds the Runs and has the usage
\* recalculated from the earliest affected date on.
ProcRecalculate(p) ==
    /\ p.pc = "recalculate"
    /\ \E rs \in RecalculatedRuns(events, runs, p.event) : RunsSaved(rs)
    /\ LET date == DayOf(EarliestAffected(runs, p.event))
           user_id == InstanceUser(p.event.instance)
       IN /\ CanScheduleFrom(date, user_id)
          /\ tasks' = ScheduledTasksFrom(date, user_id)
          /\ msgs' = ScheduledMsgsFrom(date, user_id)
          /\ nextId' = ScheduledNextIdFrom(date, user_id)
    /\ procs' = Replace(procs, p, [p EXCEPT !.pc = "done"])
    /\ UNCHANGED <<users, nextUser, accounts, usage, peak, events, tie,
                   lockHolder, calcs, dels, commits, lockOps>>

\* line 439 in a build whose scan takes events of one timestamp in the
\* order tie.
ProcRecalculateTie(p) ==
    /\ p.pc = "recalculate"
    /\ \E rs \in RecalculatedRunsTie(events, runs, p.event, tie) :
          RunsSaved(rs)
    /\ LET date == DayOf(EarliestAffected(runs, p.event))
           user_id == InstanceUser(p.event.instance)
       IN /\ CanScheduleFrom(date, user_id)
          /\ tasks' = ScheduledTasksFrom(date, user_id)
          /\ msgs' = ScheduledMsgsFrom(date, user_id)
          /\ nextId' = ScheduledNextIdFrom(date, user_id)
    /\ procs' = Replace(procs, p, [p EXCEPT !.pc = "done"])
    /\ UNCHANGED <<users, nextUser, accounts, usage, peak, events, tie,
                   lockHolder, calcs, dels, commits, lockOps>>

\* Mutant: the new Run takes the type the instance was launched with.
ProcCreate_LaunchType(p) ==
    /\ p.pc = "create"
    /\ RunsSaved(SaveRuns(runs, {Run(p.event.instance,
                                      InstanceType(p.event.instance),
                                      p.event.time, NoEnd)}))
    /\ procs' = Replace(procs, p, [p EXCEPT !.pc = "calculate"])
    /\ UNCHANGED <<users, nextUser, accounts, tasks, msgs, nextId, usage,
                   peak, events, tie, lockHolder, calcs, dels, commits,
                   lockOps>>

\* lines 441-456: the Run normalized from the event alone is saved; the
\* save is committed at once, before line 458 is reached.
ProcCreate(p) ==
    /\ p.pc = "create"
    /\ RunsSaved(SaveRuns(runs, NormalizeRuns(<<p.event>>)))
    /\ procs' = Replace(procs, p, [p EXCEPT !.pc = "calculate"])
    /\ UNCHANGED <<users, nextUser, accounts, tasks, msgs, nextId, usage,
                   peak, events, tie, lockHolder, calcs, dels, commits,
                   lockOps>>

\* line 458: calculate_max_concurrent_usage_from_runs is given the Run
\* the call has saved, as the call saved it: the usage is recalculated for
\* the dates of that Run, which is open: its start date through the
\* present day.
ProcCalculate(p) ==
    /\ p.pc = "calculate"
    /\ LET date == DayOf(p.event.time)
           user_id == InstanceUser(p.event.instance)
       IN /\ CanScheduleFrom(date, user_id)
          /\ tasks' = ScheduledTasksFrom(date, user_id)
          /\ msgs' = ScheduledMsgsFrom(date, user_id)
          /\ nextId' = ScheduledNextIdFrom(date, user_id)
    /\ procs' = Replace(procs, p, [p EXCEPT !.pc = "done"])
    /\ UNCHANGED <<users, nextUser, accounts, usage, peak, runVars,
                   lockHolder, calcs, dels, commits, lockOps>>

\* The call has returned: its worker is free for the next event.
ProcReturn(p) ==
    /\ p.pc = "done"
    /\ procs' = procs (-) Bag1(p)
    /\ UNCHANGED <<storeVars, lockHolder, calcs, dels, commits, lockOps>>

\* ---- environment -----------------------------------------------------------
\* line 458: calculate_max_concurrent_usage_from_runs asks the scheduler for
\* a calculation of (user_id, date). Users and dates are interchangeable:
\* requests name them in the order of their first use.
ScheduleRequest(date, user_id) ==
    /\ UserExists(user_id)
    /\ \A v \in Users : v < user_id => \E m \in msgs : m.user = v
    /\ \A e \in Dates : e < date => \E m \in msgs : m.date = e
    /\ CanSchedule(date, user_id)
    /\ ~HasScheduled(date, user_id)
    /\ tasks' = ScheduledTasks(date, user_id)
    /\ msgs' = ScheduledMsgs(date, user_id)
    /\ nextId' = ScheduledNextId(date, user_id)
    /\ UNCHANGED <<users, nextUser, accounts, usage, lockHolder, calcs, dels,
                   commits, peak, runVars, procs, lockOps>>

\* lines 600-602: "this task was deleted since its task was delayed": the
\* record of a task is removed while its delivery is still queued.
TaskRecordDeleted(t) ==
    /\ tasks[t].status # NONE
    /\ tasks' = [tasks EXCEPT ![t] = NoTask]
    /\ UNCHANGED <<users, nextUser, accounts, msgs, nextId, usage, lockHolder,
                   calcs, dels, commits, peak, runVars, procs, lockOps>>

\* The steps of the executions of calculate_max_concurrent_usage_task.
CalcNext ==
    \/ \E m \in msgs : CalcStart(m)
    \/ \E c \in Calcs : CalcAcquire(c)
    \/ \E c \in Calcs : CalcLockTimeout(c)
    \/ \E c \in Calcs : CalcTaskMissing(c)
    \/ \E c \in Calcs : CalcNotScheduled(c)
    \/ \E c \in Calcs : CalcIsScheduled(c)
    \/ \E c \in Calcs : CalcCompute(c)
    \/ \E c \in Calcs : CalcComputeFails(c)
    \/ \E c \in Calcs : CalcSave(c)
    \/ \E c \in Calcs : CalcExcept(c)
    \/ \E c \in Calcs : CalcReraise(c)

\* The steps of the executions of _delete_cloud_accounts, for the
\* deliveries of the delete tasks and their duplicates.
DeleteNext ==
    \/ \E f \in SUBSET Accounts : DeleteStart(f)
    \/ \E f \in SUBSET Accounts : DeleteAgain(f)
    \/ \E d \in Dels : DeleteFetchUser(d)
    \/ \E d \in Dels : DeleteUserMissing(d)
    \/ \E d \in Dels : DeleteAcquire(d)
    \/ \E d \in Dels : DeleteLockTimeout(d)
    \/ \E d \in Dels : DeleteAccount(d)

\* The calculation-task protocol for users without cloud accounts (the
\* users delete_inactive_users may delete at any time): the User table is
\* empty until a message of the sources service creates a user.
InitNoAccounts ==
    /\ users = {}
    /\ nextUser = 1
    /\ accounts = {}
    /\ tasks = [t \in TaskIds |-> NoTask]
    /\ msgs = {}
    /\ nextId = 1
    /\ usage = [u \in Users |-> [d \in Dates |-> 0]]
    /\ lockHolder = [k \in LockKeys |-> "none"]
    /\ calcs = EmptyBag
    /\ dels = EmptyBag
    /\ commits = [t \in TaskIds |-> 0]
    /\ peak = [u \in Users |-> [d \in Dates |-> NoPeak]]
    /\ events = {}
    /\ runs = {}
    /\ tie = OnFirst
    /\ procs = EmptyBag
    /\ lockOps = EmptyBag

Next ==
    \/ CalcNext
    \/ CreateFromSourcesKafkaMessage
    \/ \E u \in Users : DeleteUser(u)
    \/ \E u \in Users : \E dt \in RequestDates : ScheduleRequest(dt, u)
    \/ \E t \in TaskIds : TaskRecordDeleted(t)

Spec == InitNoAccounts /\ [][Next]_vars

\* Calculation tasks and cloud-account deletions contending for the locks
\* of users that have cloud accounts. The locks are keyed by user alone, so
\* the calculations requested here are those of one date.
FirstDate == CHOOSE d \in Dates : \A e \in Dates : d <= e

NextLock ==
    \/ CalcNext
    \/ DeleteNext
    \/ \E u \in Users : ScheduleRequest(FirstDate, u)
    \/ \E u \in Users : DeleteUser(u)

SpecLock == Init /\ [][NextLock]_vars

\* A step of execution c after it has taken its delivery.
CalcStep(c) ==
    \/ CalcAcquire(c)
    \/ CalcLockTimeout(c)
    \/ CalcTaskMissing(c)
    \/ CalcNotScheduled(c)
    \/ CalcIsScheduled(c)
    \/ CalcCompute(c)
    \/ CalcComputeFails(c)
    \/ CalcSave(c)
    \/ CalcExcept(c)
    \/ CalcReraise(c)

\* The calculation tasks of one date on workers that are scheduled fairly:
\* an execution that can take a step is not left waiting forever, and so
\* every holder of a lock leaves its block.
NextLive ==
    \/ CalcNext
    \/ CreateFromSourcesKafkaMessage
    \/ \E u \in Users : ScheduleRequest(FirstDate, u)
    \/ \E u \in Users : DeleteUser(u)
    \/ \E t \in TaskIds : TaskRecordDeleted(t)

SpecLive ==
    /\ InitNoAccounts
    /\ [][NextLive]_vars
    /\ WF_vars(\E c \in Calcs : CalcStep(c))

\* The usage calculator applied to Run tables that satisfy the invariants
\* of the Run model, for any date, in any order, any number of times.
AllRuns ==
    {RunRow(Run(r.instance, InstanceType(r.instance), r.start, r.end), 1) :
        r \in {x \in [instance : Instances, start : Times,
                       end : Times \cup {NoEnd}] :
                   x.end = NoEnd \/ x.end > x.start}}

\* Two Runs overlap: their intervals share an instant.
RunsIntersect(r1, r2) ==
    /\ r1.end = NoEnd \/ r2.start < r1.end
    /\ r2.end = NoEnd \/ r1.start < r2.end

ValidRuns(rs) ==
    \A r1, r2 \in rs :
        (r1 # r2 /\ r1.instance = r2.instance) => ~RunsIntersect(r1, r2)

RunTables ==
    {rs \in {{f[k] : k \in 1..MaxRuns} : f \in [1..MaxRuns -> AllRuns]} :
        ValidRuns(rs)} \cup {{}}

InitUsage ==
    /\ users = Users
    /\ nextUser = NumUsers + 1
    /\ accounts = Accounts
    /\ tasks = [t \in TaskIds |-> NoTask]
    /\ msgs = {}
    /\ nextId = 1
    /\ usage = [u \in Users |-> [d \in Dates |-> 0]]
    /\ lockHolder = [k \in LockKeys |-> "none"]
    /\ calcs = EmptyBag
    /\ dels = EmptyBag
    /\ commits = [t \in TaskIds |-> 0]
    /\ peak = [u \in Users |-> [d \in Dates |-> NoPeak]]
    /\ events = {}
    /\ runs \in RunTables
    /\ tie = OnFirst
    /\ procs = EmptyBag
    /\ lockOps = EmptyBag

\* line 627: calculate_max_concurrent_usage(date, user_id) computes the
\* snapshot from the Runs and persists it.
UsageCalculated(date, user_id) ==
    /\ usage' = SavedUsage(date, user_id)
    /\ peak' = SavedPeak(date, user_id)
    /\ UNCHANGED <<users, nextUser, accounts, tasks, msgs, nextId, runVars,
                   lockHolder, calcs, dels, commits, procs, lockOps>>

\* The calculations are those of one user; the Run table holds the Runs of
\* the instances of every user.
FirstUser == CHOOSE u \in Users : \A v \in Users : u <= v

NextUsage == \E d \in Dates : UsageCalculated(d, FirstUser)

SpecUsage == InitUsage /\ [][NextUsage]_vars

\* process_instance_event called for the events of one instance, in any
\* order of their timestamps and any number of times, on workers whose
\* calls overlap step by step (the function takes no lock and opens no
\* transaction); the Runs of different instances do not depend on each
\* other.
FirstInstance == CHOOSE i \in Instances : \A j \in Instances : i <= j

NextRuns ==
    \/ \E e \in InstanceEvents(FirstInstance) : ProcStart(e)
    \/ \E p \in Procs : ProcCheck(p)
    \/ \E p \in Procs : ProcRecalculate(p)
    \/ \E p \in Procs : ProcCreate(p)
    \/ \E p \in Procs : ProcCalculate(p)
    \/ \E p \in Procs : ProcReturn(p)

SpecRuns == Init /\ [][NextRuns]_vars

\* The calls of process_instance_event for the events of one instance next
\* to the calculation tasks of the instance's user, those the calls have
\* scheduled and those requested for a date. No user and no task record
\* is deleted here, so every execution finds its record (the branch of
\* lines 600-609 is not taken).
NextRecompute ==
    \/ \E m \in msgs : CalcStart(m)
    \/ \E c \in Calcs : CalcAcquire(c)
    \/ \E c \in Calcs : CalcLockTimeout(c)
    \/ \E c \in Calcs : CalcNotScheduled(c)
    \/ \E c \in Calcs : CalcIsScheduled(c)
    \/ \E c \in Calcs : CalcCompute(c)
    \/ \E c \in Calcs : CalcComputeFails(c)
    \/ \E c \in Calcs : CalcSave(c)
    \/ \E c \in Calcs : CalcExcept(c)
    \/ \E c \in Calcs : CalcReraise(c)
    \/ \E dt \in RequestDates :
          ScheduleRequest(dt, InstanceUser(FirstInstance))
    \/ \E e \in InstanceEvents(FirstInstance) : ProcStart(e)
    \/ \E p \in Procs : ProcCheck(p)
    \/ \E p \in Procs : ProcRecalculate(p)
    \/ \E p \in Procs : ProcCreate(p)
    \/ \E p \in Procs : ProcCalculate(p)

SpecRecompute == Init /\ [][NextRecompute]_vars

\* The same calls in a build whose recalculation scans events of one
\* timestamp in one order, whichever it is.
InitTie ==
    /\ users = Users
    /\ nextUser = NumUsers + 1
    /\ accounts = Accounts
    /\ tasks = [t \in TaskIds |-> NoTask]
    /\ msgs = {}
    /\ nextId = 1
    /\ usage = [u \in Users |-> [d \in Dates |-> 0]]
    /\ lockHolder = [k \in LockKeys |-> "none"]
    /\ calcs = EmptyBag
    /\ dels = EmptyBag
    /\ commits = [t \in TaskIds |-> 0]
    /\ peak = [u \in Users |-> [d \in Dates |-> NoPeak]]
    /\ events = {}
    /\ runs = {}
    /\ tie \in ScanOrders
    /\ procs = EmptyBag
    /\ lockOps = EmptyBag

NextRunsTie ==
    \/ \E e \in InstanceEvents(FirstInstance) : ProcStart(e)
    \/ \E p \in Procs : ProcCheck(p)
    \/ \E p \in Procs : ProcRecalculateTie(p)
    \/ \E p \in Procs : ProcCreate(p)
    \/ \E p \in Procs : ProcCalculate(p)
    \/ \E p \in Procs : ProcReturn(p)

SpecRunsTie == InitTie /\ [][NextRunsTie]_vars

\* The calculation tasks of one date on workers that may die inside the
\* lock block.
NextCrash ==
    \/ CalcNext
    \/ CreateFromSourcesKafkaMessage
    \/ \E c \in Calcs : CalcCrash(c)
    \/ \E u \in Users : ScheduleRequest(FirstDate, u)
    \/ \E u \in Users : DeleteUser(u)

SpecCrash == InitNoAccounts /\ [][NextCrash]_vars

\* Deliveries of the delete tasks and their duplicates, together with the
\* deletion of users whose cloud accounts are gone and the requests for
\* calculations.
NextDelete ==
    \/ DeleteNext
    \/ \E u \in Users : DeleteUser(u)
    \/ \E u \in Users : \E dt \in Dates : ScheduleRequest(dt, u)

SpecDelete == Init /\ [][NextDelete]_vars

\* process_instance_event on concurrent workers, for the events of one
\* instance that is resized between its events.
NextEvents ==
    \/ \E e \in ResizedInstanceEvents(FirstInstance) : ProcStart(e)
    \/ \E p \in Procs : ProcCheck(p)
    \/ \E p \in Procs : ProcRecalculate(p)
    \/ \E p \in Procs : ProcCreate(p)
    \/ \E p \in Procs : ProcCalculate(p)

SpecEvents == Init /\ [][NextEvents]_vars

\* Operations that lock several users at once, on workers that are
\* scheduled fairly: an operation that can take or release a lock is not
\* left waiting forever. A timeout may end a wait, and need not.
NextMultiLock ==
    \/ \E ids \in IdLists : LockOpStart(ids)
    \/ \E o \in LockOps : LockOpAcquire(o)
    \/ \E o \in LockOps : LockOpTimeout(o)
    \/ \E o \in LockOps : LockOpRelease(o)

SpecMultiLock ==
    /\ Init
    /\ [][NextMultiLock]_vars
    /\ WF_vars(\E o \in LockOps : LockOpProceed(o))

TypeOK ==
    /\ users \subseteq Users
    /\ nextUser \in 1..(NumUsers + 1)
    /\ \A u \in users : u < nextUser
    /\ accounts \subseteq Accounts
    /\ \A t \in TaskIds : tasks[t].status \in {NONE, SCHEDULED, COMPLETE, ERROR}
    /\ nextId \in 1..(MaxTasks + 1)
    /\ BagCardinality(calcs) <= NumWorkers
    /\ BagCardinality(dels) <= NumDeleters + 2
    /\ \A c \in Calcs :
          c.pc \in {"lock", "get", "calc", "save", "except", "reraise",
                    "done"}
    /\ \A d \in Dels : d.pc \in {"loop", "wait", "locked", "failed", "done"}

\* ---- helpers of the properties --------------------------------------------
\* Two different deliveries in flight or finished.
TwoDeliveries(c1, c2) == c1 # c2 \/ CopiesIn(c1, calcs) >= 2

\* Execution c takes the step: it is replaced by its next state.
Stepped(c) ==
    /\ CopiesIn(c, calcs') < CopiesIn(c, calcs)
    /\ BagCardinality(calcs') = BagCardinality(calcs)

\* Execution c takes the step and ends by returning normally.
StepReturns(c) ==
    /\ Stepped(c)
    /\ \E d \in BagToSet(calcs') :
          /\ calcs' = Replace(calcs, c, d)
          /\ d.pc = "done"
          /\ d.result = Returned

\* The number of executions inside the lock block of user u.
InBlockOf(u) ==
    BagCardinality([c \in {x \in Calcs : InCalcBlock(x) /\ x.req.user = u}
                       |-> calcs[c]])
    + BagCardinality([d \in {x \in Dels : InDeleteBlock(x)
                                         /\ AccountUser(Head(x.list)) = u}
                       |-> dels[d]])

\* c1 and c2 are two deliveries of one task that executed concurrently and
\* have both finished, the record of the task and the user still existing.
DuplicatesDone(c1, c2) ==
    /\ TwoDeliveries(c1, c2)
    /\ c1.req.id = c2.req.id
    /\ c1.overlap /\ c2.overlap
    /\ c1.pc = "done" /\ c2.pc = "done"
    /\ \A c \in Calcs : c.req.id = c1.req.id => c.pc = "done"
    /\ tasks[c1.req.id].status # NONE
    /\ c1.req.user \in users

\* ---- C1 --------------------------------------------------------------------
\* C1 as stated: once two concurrent deliveries of one task have finished,
\* the record is COMPLETE, the computation was committed exactly once and
\* exactly one ConcurrentUsage row exists for the (user, date).
C1_DuplicatesComputeOnce ==
    \A c1, c2 \in Calcs :
        DuplicatesDone(c1, c2) =>
            /\ tasks[c1.req.id].status = COMPLETE
            /\ commits[c1.req.id] = 1
            /\ usage[c1.req.user][c1.req.date] = 1

\* ---- C2 --------------------------------------------------------------------
\* C2: in every reachable state at most one execution, of
\* calculate_max_concurrent_usage_task or of _delete_cloud_accounts, is
\* inside the lock_task_for_user_ids block of a given user.
C2_OneInBlockPerUser ==
    \A u \in Users : InBlockOf(u) <= 1

\* A calculation is inside the block of a user while a deletion of an
\* account of the same user waits for the lock.
C2_Witness ==
    \E u \in Users :
        /\ InBlockOf(u) = 1
        /\ \E c \in Calcs : InCalcBlock(c) /\ c.req.user = u
        /\ \E d \in Dels : d.pc = "wait" /\ DeleteHeldIds(d) = {u}

\* ---- C3 --------------------------------------------------------------------
\* C3 as stated: the status of a task record changes only from SCHEDULED to
\* COMPLETE or from SCHEDULED to ERROR; a status that is COMPLETE or ERROR
\* never changes again.
C3_StatusChangesOnce ==
    [][\A t \in TaskIds :
          (/\ tasks[t].status # NONE
           /\ tasks'[t].status # NONE
           /\ tasks'[t].status # tasks[t].status)
          => (/\ tasks[t].status = SCHEDULED
              /\ tasks'[t].status \in {COMPLETE, ERROR})]_vars

\* ---- C4 --------------------------------------------------------------------
\* C4 as stated: a record is set to COMPLETE only by an execution that (a)
\* read the record by its task id and found it SCHEDULED, (b) has its user
\* still existing when COMPLETE is written, (c) holds the user's lock, as
\* every execution does from before its read until its block ends, and (d)
\* got calculate_max_concurrent_usage back without a failure.
C4_CompleteOnlyAfterChecks ==
    [][/\ \A c \in Calcs :
             InCalcBlock(c) => lockHolder[c.req.user] = "calc"
       /\ \A t \in TaskIds :
             (tasks'[t].status = COMPLETE /\ tasks[t].status # COMPLETE)
             => \E c \in Calcs :
                   /\ StepReturns(c)
                   /\ c.pc = "save"
                   /\ c.req.id = t
                   /\ c.calcTask.status = SCHEDULED
                   /\ c.userFound
                   /\ c.req.user \in users
                   /\ c.exc = "none"]_vars

\* ---- C5 --------------------------------------------------------------------
\* C5: when calculate_max_concurrent_usage raises inside the lock block, the
\* handler first sets the status of the task record to ERROR and then
\* re-raises the same error: the execution ends only by raising that error,
\* never by returning.
C5_ErrorRecordedThenReraised ==
    [][\A c \in Calcs :
          (Stepped(c) /\ c.exc = "CalcError") =>
              \E d \in BagToSet(calcs') :
                  /\ calcs' = Replace(calcs, c, d)
                  /\ c.pc \in {"except", "reraise"}
                  /\ c.pc = "except" =>
                        /\ d.pc = "reraise"
                        /\ d.result = NoResult
                        /\ tasks[c.req.id].status # NONE
                              => tasks'[c.req.id].status = ERROR
                  /\ c.pc = "reraise" =>
                        /\ d.pc = "done"
                        /\ d.result = Raised("CalcError")]_vars

\* A failed computation has ended by raising its error, the record being
\* ERROR.
C5_Witness ==
    \E c \in Calcs :
        /\ c.pc = "done"
        /\ c.exc = "CalcError"
        /\ c.result = Raised("CalcError")
        /\ tasks[c.req.id].status = ERROR

\* ---- C6 --------------------------------------------------------------------
\* C6: an execution that found the user existing and finds no record for
\* its task id has the scheduler ensure a SCHEDULED task for the same
\* (user, date) and returns: it writes no ConcurrentUsage row, commits no
\* computation and changes no existing task record.
C6_MissingRecordReschedules ==
    [][\A c \in Calcs :
          (/\ Stepped(c)
           /\ c.pc = "get"
           /\ tasks[c.req.id].status = NONE)
          => /\ StepReturns(c)
             /\ c.userFound
             /\ usage' = usage
             /\ commits' = commits
             /\ \A t \in TaskIds :
                   tasks[t].status # NONE => tasks'[t] = tasks[t]
             /\ \E t \in TaskIds :
                   /\ tasks'[t] = [user |-> c.req.user, date |-> c.req.date,
                                   status |-> SCHEDULED]
                   /\ [id |-> t, user |-> c.req.user, date |-> c.req.date]
                         \in msgs']_vars

\* An execution found no record, returned, and a fresh task for its
\* (user, date) is SCHEDULED and queued.
C6_Witness ==
    \E c \in Calcs :
        /\ c.pc = "done"
        /\ c.result = Returned
        /\ c.userFound
        /\ c.calcTask = NoTask
        /\ tasks[c.req.id].status = NONE
        /\ \E t \in TaskIds :
              /\ t # c.req.id
              /\ tasks[t] = [user |-> c.req.user, date |-> c.req.date,
                             status |-> SCHEDULED]
        /\ usage[c.req.user][c.req.date] = 0

\* ---- C7 --------------------------------------------------------------------
\* C7: an execution that reads its record with a status that is not
\* SCHEDULED returns normally: the task records, the queue, the
\* ConcurrentUsage rows and the committed computations are unchanged.
C7_NotScheduledSkips ==
    [][\A c \in Calcs :
          (/\ Stepped(c)
           /\ c.pc = "get"
           /\ tasks[c.req.id].status \in {COMPLETE, ERROR})
          => /\ StepReturns(c)
             /\ UNCHANGED <<tasks, msgs, nextId, usage, commits>>]_vars

\* An execution has read a COMPLETE record and returned; the record is
\* still COMPLETE and its computation was committed once.
C7_Witness ==
    \E c \in Calcs :
        /\ c.pc = "done"
        /\ c.result = Returned
        /\ c.calcTask.status = COMPLETE
        /\ tasks[c.req.id].status = COMPLETE
        /\ commits[c.req.id] = 1

\* ---- C8 --------------------------------------------------------------------
\* C8: an execution whose user does not exist ends at once by returning: it
\* never enters the lock block, reads no record, and its step changes no
\* lock, no task record, no ConcurrentUsage row and schedules nothing.
C8_MissingUserSkips ==
    [][/\ \A c \in Calcs :
             ~c.userFound =>
                 /\ c.pc = "done"
                 /\ c.result = Returned
                 /\ c.calcTask = NoTask
       /\ (\E c \in BagToSet(calcs') :
              /\ CopiesIn(c, calcs') > CopiesIn(c, calcs)
              /\ ~c.userFound)
          => UNCHANGED <<storeVars, lockHolder, commits>>]_vars

\* A delivery for a deleted user has been executed.
C8_Witness ==
    \E c \in Calcs :
        /\ ~c.userFound
        /\ c.req.user \notin users
        /\ c.pc = "done"
        /\ c.result = Returned

\* ---- C9 --------------------------------------------------------------------
\* C9: the lock of a user is held only while an execution is inside the
\* block for that user: every way out of the block (normal completion, the
\* return for a missing record, the return for a status that is not
\* SCHEDULED, a raised failure) frees it.
C9_LockReleasedOnEveryExit ==
    \A k \in LockKeys :
        lockHolder[k] # "none" =>
            \E c \in Calcs : InCalcBlock(c) /\ k \in LockIds(c.req.user)

\* Executions have left the block by a raised failure and by the return for
\* a status that is not SCHEDULED, and the lock is free.
C9_Witness ==
    /\ \E c \in Calcs :
          /\ c.pc = "done"
          /\ c.result = Raised("CalcError")
    /\ \E c \in Calcs :
          /\ c.pc = "done"
          /\ c.result = Returned
          /\ c.calcTask.status = ERROR
    /\ \A k \in LockKeys : lockHolder[k] = "none"

\* ---- C10 -------------------------------------------------------------------
\* C10: an execution whose lock acquisition timed out never enters the
\* block, reads no record, ends only by raising the timeout, and none of
\* its steps writes a ConcurrentUsage row or commits a computation.
C10_LockTimeoutSurfaces ==
    [][\A c \in Calcs :
          c.exc = "LockTimeout" =>
              /\ c.pc \in {"except", "reraise", "done"}
              /\ c.calcTask = NoTask
              /\ c.pc = "done" => c.result = Raised("LockTimeout")
              /\ Stepped(c) =>
                    /\ usage' = usage
                    /\ commits' = commits
                    /\ \E d \in BagToSet(calcs') :
                          /\ calcs' = Replace(calcs, c, d)
                          /\ d.exc = "LockTimeout"
                          /\ d.result \in {NoResult, Raised("LockTimeout")}]_vars

\* An execution has ended by raising the lock timeout.
C10_Witness ==
    \E c \in Calcs :
        /\ c.pc = "done"
        /\ c.exc = "LockTimeout"
        /\ c.result = Raised("LockTimeout")

\* ---- C11 -------------------------------------------------------------------
\* The step of execution c commits its transaction: line 636 is reached.
Commits(c) == c.pc = "save" /\ StepReturns(c)

\* C11: no step of an execution inside its lock block other than the commit,
\* and no step of the handler of a failed execution, changes a Run or a
\* ConcurrentUsage row, so an execution that fails or dies between the
\* acquisition of the lock and the commit leaves them as they were; and a
\* reader sees a ConcurrentUsage row only when a computation for its
\* (user, date) was committed.
C11_FailureLeavesPriorState ==
    [][/\ \A c \in Calcs :
             (/\ Stepped(c)
              /\ InCalcBlock(c) \/ c.pc \in {"except", "reraise"}
              /\ ~Commits(c))
             => UNCHANGED <<usage, peak, runs>>
       /\ \A u \in Users : \A d \in Dates :
             usage[u][d] >= 1 =>
                 \E m \in msgs :
                     m.user = u /\ m.date = d /\ commits[m.id] >= 1]_vars

\* A worker died inside the block after reading its SCHEDULED record,
\* another execution of the task failed in the computation, and no
\* ConcurrentUsage row exists for the (user, date).
C11_Witness ==
    \E c1, c2 \in Calcs :
        /\ c1.pc = "done" /\ c1.result = Crashed
        /\ c1.calcTask.status = SCHEDULED
        /\ c2.pc = "done" /\ c2.result = Raised("CalcError")
        /\ c1.req = c2.req
        /\ usage[c1.req.user][c1.req.date] = 0
        /\ commits[c1.req.id] = 0

\* ---- C12 -------------------------------------------------------------------
\* The Runs of the instances of user u.
RunsOfUser(rs, u) == {r \in rs : InstanceUser(r.instance) = u}

\* C12 as stated: a step that creates, changes or deletes a Run, a
\* ConcurrentUsage row or a CloudAccount of a user is taken only while the
\* lock of that user is held.
C12_MutationsUnderLock ==
    [][\A u \in Users :
          (\/ usage'[u] # usage[u]
           \/ peak'[u] # peak[u]
           \/ RunsOfUser(runs', u) # RunsOfUser(runs, u)
           \/ {a \in accounts' : AccountUser(a) = u}
                 # {a \in accounts : AccountUser(a) = u})
          => lockHolder[u] # "none"]_vars

\* ---- C13 -------------------------------------------------------------------
\* The task records with status SCHEDULED of a (user, date).
ScheduledOf(u, d) ==
    {t \in TaskIds :
        tasks[t] = [user |-> u, date |-> d, status |-> SCHEDULED]}

\* C13: in every reachable state, whatever requests the scheduler served
\* and whatever executions re-scheduled a task whose record was missing, at
\* most one task record with status SCHEDULED exists for a (user, date).
C13_OneScheduledPerKey ==
    \A u \in Users : \A d \in Dates : Cardinality(ScheduledOf(u, d)) <= 1

\* Two deliveries of a task whose record is gone have both re-entered the
\* scheduler and returned, and one SCHEDULED record exists for their
\* (user, date): the second re-scheduling reused the record of the first.
C13_Witness ==
    \E c1, c2 \in Calcs :
        /\ TwoDeliveries(c1, c2)
        /\ c1.req = c2.req
        /\ c1.pc = "done" /\ c2.pc = "done"
        /\ c1.result = Returned /\ c2.result = Returned
        /\ c1.userFound /\ c2.userFound
        /\ c1.calcTask = NoTask /\ c2.calcTask = NoTask
        /\ tasks[c1.req.id].status = NONE
        /\ Cardinality(ScheduledOf(c1.req.user, c1.req.date)) = 1

\* ---- C14 -------------------------------------------------------------------
\* C14 as stated: after any sequence of process_instance_event calls, the
\* persisted Runs of an instance do not overlap pairwise, every Run with an
\* end has end > start, and at most one Run has no end.
C14_RunsWellFormed ==
    \A i \in Instances :
        LET rs == {r \in runs : r.instance = i}
        IN /\ \A r1, r2 \in rs : r1 # r2 => ~RunsIntersect(r1, r2)
           /\ \A r \in rs : r.end # NoEnd => r.end > r.start
           /\ Cardinality({r \in rs : r.end = NoEnd}) <= 1

\* ---- C15 -------------------------------------------------------------------
\* A Run of the event's instance is open at the event's timestamp.
OpenAt(rs, event) ==
    \E r \in rs : /\ r.instance = event.instance
                   /\ r.start <= event.time
                   /\ r.end = NoEnd

\* A Run of the event's instance, open or closed, covers the event's
\* timestamp.
RunningAt(rs, event) ==
    \E r \in rs : /\ r.instance = event.instance
                   /\ r.start <= event.time
                   /\ (r.end = NoEnd \/ r.end > event.time)

\* C15 as stated, in the reading most favourable to the code (the Run is
\* open, or no Run is running, at the timestamp of the event): a call that
\* runs alone (every other call has ended, and a Run still lies at or
\* after its event) and goes into the recalculation for a power_on of an
\* instance whose Run is open, or for a power_off of an instance with no
\* Run running, leaves the Runs as they are without the event.
C15_RedundantEventsAreNoOps ==
    [][\A p \in Procs :
          (/\ ProcRecalculate(p)
           /\ procs[p] = 1
           /\ \A q \in Procs : q # p => q.pc = "done"
           /\ RunExists(runs, p.event)
           /\ \/ p.event.kind = power_on /\ OpenAt(runs, p.event)
              \/ p.event.kind = power_off /\ ~RunningAt(runs, p.event))
          => runs' = runs]_vars

\* ---- C16 -------------------------------------------------------------------
\* The calculations of (user_id, date) are over: no call of
\* process_instance_event is in flight, no task of the pair is SCHEDULED,
\* every execution for it has ended and none of them failed.
CalculationsOver(date, user_id) ==
    /\ \A p \in Procs : p.pc = "done"
    /\ ~HasScheduled(date, user_id)
    /\ \A c \in Calcs :
          (c.req.user = user_id /\ c.req.date = date)
          => (c.pc = "done" /\ c.exc = "none")

\* C16 as stated: when process_instance_event has recalculated the Runs or
\* created a Run for a power_on, the ConcurrentUsage of the event's user is
\* recomputed for every date from the date of the event through the
\* present day: once the calculations of such a date are over, its stored
\* snapshot is the one of the Runs as they are now.
C16_EveryDateRecalculated ==
    \A e \in events : \A d \in Dates :
        (/\ e.kind = power_on
         /\ d >= DayOf(e.time) /\ d <= Today
         /\ CalculationsOver(d, InstanceUser(e.instance)))
        => /\ usage[InstanceUser(e.instance)][d] = 1
           /\ peak[InstanceUser(e.instance)][d]
                 = MaxConcurrent(runs, d, InstanceUser(e.instance))

\* ---- C17 -------------------------------------------------------------------
\* The user's Runs active at instant t; an open Run is still running.
ActiveAt(rs, t, u) ==
    {r \in rs : /\ InstanceUser(r.instance) = u
                /\ r.start <= t
                /\ (r.end = NoEnd \/ t < r.end)}

\* The instants of a day at which the set of active Runs can change.
DayTicks(d) == DayStart(d)..(DayEnd(d) - 1)

\* The highest number of Runs active at one instant of the day, and the
\* earliest instant where it is reached.
PeakCount(rs, d, u) ==
    LET N == {Cardinality(ActiveAt(rs, t, u)) : t \in DayTicks(d)}
    IN CHOOSE n \in N : \A m \in N : m <= n

PeakTick(rs, d, u) ==
    LET T == {t \in DayTicks(d) :
                 Cardinality(ActiveAt(rs, t, u)) = PeakCount(rs, d, u)}
    IN CHOOSE t \in T : \A x \in T : t <= x

RECURSIVE SumVcpu(_)
SumVcpu(S) ==
    IF S = {} THEN 0
    ELSE LET r == CHOOSE x \in S : TRUE
         IN Vcpu(r.type) + SumVcpu(S \ {r})

RECURSIVE SumMemory(_)
SumMemory(S) ==
    IF S = {} THEN 0
    ELSE LET r == CHOOSE x \in S : TRUE
         IN Memory(r.type) + SumMemory(S \ {r})

\* C17: the stored snapshot of a (user, date) has as count the highest
\* number of the user's Runs active at one instant of the day, and as vcpu
\* and memory the sums over the Runs active at the earliest instant where
\* that number is reached.
C17_PeakIsMaxConcurrent ==
    \A u \in Users : \A d \in Dates :
        usage[u][d] >= 1 =>
            /\ peak[u][d].count = PeakCount(runs, d, u)
            /\ peak[u][d].vcpu =
                  SumVcpu(ActiveAt(runs, PeakTick(runs, d, u), u))
            /\ peak[u][d].memory =
                  SumMemory(ActiveAt(runs, PeakTick(runs, d, u), u))

\* Two instances of a user run together at the first instant of a day and
\* one of them alone after it: the stored count is 2 and the stored sums
\* are those of both instances; on the next day, where only the Run that is
\* still open runs, the stored count is 1.
C17_Witness ==
    \E u \in Users : \E r1, r2 \in runs :
        /\ r1.instance # r2.instance
        /\ InstanceUser(r1.instance) = u /\ InstanceUser(r2.instance) = u
        /\ r1.start = DayStart(1) /\ r1.end = NoEnd
        /\ r2.start = DayStart(1) /\ r2.end = DayStart(1) + 1
        /\ usage[u][1] = 1
        /\ peak[u][1] = [count |-> 2,
                         vcpu |-> Vcpu(r1.type) + Vcpu(r2.type),
                         memory |-> Memory(r1.type) + Memory(r2.type)]
        /\ usage[u][2] = 1
        /\ peak[u][2].count = 1

\* ---- C19 -------------------------------------------------------------------
\* The Run tables a call of process_instance_event that runs alone can
\* leave when called for the event on the tables evs and rs, in a build
\* that scans events of one timestamp in the order tie.
ProcessedRuns(evs, rs, event) ==
    IF RunExists(rs, event) THEN RecalculatedRunsTie(evs, rs, event, tie)
    ELSE IF event.kind = power_on THEN {SaveRuns(rs, NormalizeRuns(<<event>>))}
    ELSE {rs}

\* C19 as stated: for an event that triggers recalculation (a Run of its
\* instance lies at or after it, line 438), with no other call in flight,
\* processing the event once more, from the Runs the first processing left
\* and the same saved events, leaves those Runs.
C19_RecalculationIdempotent ==
    \A e \in InstanceEvents(FirstInstance) :
        (/\ procs = EmptyBag
         /\ Cardinality(events \cup {e}) <= MaxEvents
         /\ RunExists(runs, e))
        => \A rs \in ProcessedRuns(events \cup {e}, runs, e) :
              ProcessedRuns(events \cup {e}, rs, e) = {rs}

\* ---- C20 -------------------------------------------------------------------
\* A delivery of task t is being executed and its record is SCHEDULED.
ExecutedScheduled(t) ==
    /\ tasks[t].status = SCHEDULED
    /\ \E c \in Calcs : Executing(c) /\ c.req.id = t

\* The record of task t is terminal, or it is gone and superseded by a
\* SCHEDULED task for the (user, date) of the delivery.
TerminalOrSuperseded(t) ==
    \/ tasks[t].status \in {COMPLETE, ERROR}
    \/ /\ tasks[t].status = NONE
       /\ \A m \in msgs : m.id = t => HasScheduled(m.date, m.user)

\* The task ids of the model are used up: the scheduler can create no
\* further record.
TaskIdsExhausted == nextId > MaxTasks

\* C20 as stated: under fair scheduling of the workers, a SCHEDULED task
\* whose delivery is executed eventually has a terminal status or is
\* superseded by a SCHEDULED task for its (user, date), in every behaviour
\* in which the scheduler does not run out of task ids.
C20_ExecutedTaskLeavesScheduled ==
    \A t \in TaskIds :
        ExecutedScheduled(t) ~> (TerminalOrSuperseded(t) \/ TaskIdsExhausted)

\* ---- C21 -------------------------------------------------------------------
\* The operation has not left its block yet.
Unfinished(o) == o.pc \in {"acquire", "held"}

\* The operation can go on without a timeout: it is inside its block, or
\* the next lock it wants is free.
CanProceed(o) ==
    \/ o.pc = "held"
    \/ o.pc = "acquire" /\ LockFree({NextLockId(o)})

\* C21: operations that lock the users of overlapping lists, given in
\* whatever orders, never wait for each other in a cycle: while an
\* operation is unfinished, some operation can go on without a timeout,
\* and under fair scheduling every operation eventually finishes.
C21_SortedAcquisitionNeverDeadlocks ==
    /\ []((\E o \in LockOps : Unfinished(o))
            => \E o \in LockOps : CanProceed(o))
    /\ (\E o \in LockOps : Unfinished(o))
          ~> (\A o \in LockOps : ~Unfinished(o))

\* Two operations were given the same two users in opposite orders; one
\* holds the first lock of the canonical order and the other waits for it.
C21_Witness ==
    \E o1, o2 \in LockOps :
        /\ Len(o1.ids) = 2 /\ Len(o2.ids) = 2
        /\ o1.ids[1] = o2.ids[2] /\ o1.ids[2] = o2.ids[1]
        /\ o1.ids[1] > o1.ids[2]
        /\ o1.pc = "acquire" /\ o1.got = 1
        /\ o2.pc = "acquire" /\ o2.got = 0
        /\ ~CanProceed(o2)

\* ---- C22 -------------------------------------------------------------------
\* The Runs of the event's instance that start after the event's timestamp.
StartsAfter(rs, event) ==
    {r \in rs : r.instance = event.instance /\ r.start > event.time}

\* The Runs of the event's instance that start at or before the event's
\* timestamp and end after it or are still open.
Spans(rs, event) ==
    {r \in rs : /\ r.instance = event.instance
                /\ r.start <= event.time
                /\ (r.end = NoEnd \/ r.end > event.time)}

OpenedBy(event) ==
    [instance |-> event.instance, type |-> event.type,
     start |-> event.time, end |-> NoEnd]

\* C23: a call for a power_on that finds no Run of the instance starting
\* after, spanning or open at the event's timestamp goes on to create a
\* Run that is not persisted yet; the creation adds exactly one row, which
\* holds the Run the event opens, leaves every persisted Run as it is and
\* goes on to the request of the calculation; the request changes no Run
\* and has a calculation SCHEDULED for the event's user and every date of
\* the new Run, from its start date through the present day.
C23_PowerOnOpensRun ==
    [][\A p \in Procs :
          /\ (/\ ProcCheck(p)
               /\ p.event.kind = power_on
               /\ (StartsAfter(runs, p.event) \cup Spans(runs, p.event)) = {})
              => /\ procs' = Replace(procs, p, [p EXCEPT !.pc = "create"])
                 /\ ~\E r \in runs : SameRun(r, OpenedBy(p.event))
          /\ ProcCreate(p)
              => /\ \E x \in runs' :
                       /\ x \notin runs
                       /\ SameRun(x, OpenedBy(p.event))
                       /\ runs' = runs \cup {x}
                 /\ procs' = Replace(procs, p, [p EXCEPT !.pc = "calculate"])
          /\ ProcCalculate(p)
              => /\ runs' = runs
                 /\ procs' = Replace(procs, p, [p EXCEPT !.pc = "done"])
                 /\ \A d \in Dates :
                       (d >= DayOf(p.event.time) /\ d <= Today)
                       => HasScheduled(d, InstanceUser(p.event.instance))'
         ]_vars

\* A power_on of an instance that was resized, on a day before the present
\* day, has been processed: the Run it opens is persisted with the type of
\* the event, and a calculation is SCHEDULED for each date from its day on.
C23_Witness ==
    \E p \in Procs :
        /\ p.pc = "done"
        /\ p.event.kind = power_on
        /\ p.event.type # InstanceType(p.event.instance)
        /\ DayOf(p.event.time) < Today
        /\ runs = {RunRow(OpenedBy(p.event), 1)}
        /\ \A d \in Dates :
              d >= DayOf(p.event.time)
              => HasScheduled(d, InstanceUser(p.event.instance))

\* ---- C26 -------------------------------------------------------------------
\* Two different calls in flight or finished.
TwoCalls(p1, p2) == p1 # p2 \/ CopiesIn(p1, procs) >= 2

\* C26 as stated: when two calls of process_instance_event, each for a
\* power_on of the same instance and each having found no Run affected by
\* its event, have both finished, the instance has at most one open Run
\* and its Runs do not overlap.
C26_ConcurrentPowerOnsWellFormed ==
    \A p1, p2 \in Procs :
        (/\ TwoCalls(p1, p2)
         /\ p1.pc = "done" /\ p2.pc = "done"
         /\ p1.event.kind = power_on /\ p2.event.kind = power_on
         /\ p1.event.instance = p2.event.instance
         /\ ~p1.found /\ ~p2.found)
        => LET rs == {r \in runs : r.instance = p1.event.instance}
           IN /\ Cardinality({r \in rs : r.end = NoEnd}) <= 1
              /\ \A r1, r2 \in rs : r1 # r2 => ~RunsIntersect(r1, r2)

\* ---- C24 -------------------------------------------------------------------
\* The locks that change in the step.
LocksChanged == {k \in LockKeys : lockHolder'[k] # lockHolder[k]}

\* The part of C24 about the lock: an execution of _delete_cloud_accounts
\* holds a lock only inside the block of the account it handles, and the
\* lock is that of the account's user alone; an account disappears only in
\* a step of an execution that holds the lock of its user for that account;
\* the step frees the lock and goes on with the next account; when the
\* account was gone already the step changes nothing in the store.
DeletedOneByOneUnderLock ==
    /\ \A k \in LockKeys :
          lockHolder[k] = "del" =>
              \E d \in Dels :
                  InDeleteBlock(d) /\ k = AccountUser(Head(d.list))
    /\ \A a \in accounts \ accounts' :
          /\ lockHolder[AccountUser(a)] = "del"
          /\ \E d \in Dels :
                InDeleteBlock(d) /\ Head(d.list) = a /\ DeleteAccount(d)
    /\ \A d \in Dels :
          /\ DeleteAcquire(d) =>
                LocksChanged = {AccountUser(Head(d.list))}
          /\ DeleteAccount(d) =>
                /\ LocksChanged = {AccountUser(Head(d.list))}
                /\ lockHolder'[AccountUser(Head(d.list))] = "none"
                /\ accounts' = accounts \ {Head(d.list)}
                /\ \E n \in BagToSet(dels') :
                      /\ dels' = Replace(dels, d, n)
                      /\ n.list = Tail(d.list)
                      /\ n.pc = IF n.list = <<>> THEN "done" ELSE "loop"
                /\ Head(d.list) \notin accounts => UNCHANGED storeVars

\* The part of C24 about an account that was already deleted: an execution
\* that comes to such an account while no one holds the lock of the
\* account's user does not end in an exception there.
GoneAccountSkippedWithoutRaising ==
    \A d \in Dels :
        (/\ d.pc \in {"loop", "wait"}
         /\ Head(d.list) \notin accounts
         /\ lockHolder[AccountUser(Head(d.list))] = "none")
        => \A n \in BagToSet(dels') :
               dels' = Replace(dels, d, n) => n.pc # "failed"

\* C24 as stated: _delete_cloud_accounts takes the lock of the owning user
\* for each cloud account separately and frees it before the next account,
\* an account is deleted only while that lock is held, and an account that
\* was already deleted is skipped without raising, so that a second
\* deletion leaves the state the first one left.
C24_AccountsDeletedOneByOneUnderLock ==
    [][DeletedOneByOneUnderLock /\ GoneAccountSkippedWithoutRaising]_vars

\* ---- C25 -------------------------------------------------------------------
\* The step writes the ConcurrentUsage row of (u, d): a row is created or
\* its values are stored anew.
WritesUsage(u, d) ==
    \/ usage'[u][d] > usage[u][d]
    \/ peak'[u][d] # peak[u][d] /\ peak'[u][d] # NoPeak

\* C25: a ConcurrentUsage row of a (user, date) is written, and a
\* computation is committed for a task id, only by the commit of an
\* execution for that task, user and date that holds the user's lock and
\* has read the record of its own task id with status SCHEDULED; every
\* execution holds the lock from that read to its commit; and no task id
\* has more than one committed computation.
C25_UsageWrittenOnceUnderLock ==
    [][/\ \A c \in Calcs :
             c.pc \in {"calc", "save"} =>
                 /\ lockHolder[c.req.user] = "calc"
                 /\ c.calcTask = [user |-> c.req.user, date |-> c.req.date,
                                  status |-> SCHEDULED]
       /\ \A u \in Users : \A d \in Dates :
             WritesUsage(u, d) =>
                 \E c \in Calcs :
                     /\ Commits(c)
                     /\ c.req.user = u /\ c.req.date = d
                     /\ commits'[c.req.id] = commits[c.req.id] + 1
       /\ \A t \in TaskIds :
             /\ commits'[t] # commits[t] =>
                   \E c \in Calcs : Commits(c) /\ c.req.id = t
             /\ commits'[t] <= 1
      ]_vars

\* A task was delivered twice: one execution read the record SCHEDULED and
\* committed the computation, the other read it COMPLETE and returned; one
\* row and one committed computation exist and the lock is free.
C25_Witness ==
    \E c1, c2 \in Calcs :
        /\ c1.req = c2.req
        /\ c1.pc = "done" /\ c2.pc = "done"
        /\ c1.calcTask.status = SCHEDULED /\ c1.result = Returned
        /\ c2.calcTask.status = COMPLETE /\ c2.result = Returned
        /\ usage[c1.req.user][c1.req.date] = 1
        /\ commits[c1.req.id] = 1
        /\ lockHolder[c1.req.user] = "none"

\* ---- C27 -------------------------------------------------------------------
\* C27 as stated: once the user of an execution is deleted, no step of the
\* execution runs the usage computation, writes a ConcurrentUsage row of
\* the user or sets a task record of the user to COMPLETE.
C27_NothingAfterUserDeletion ==
    [][\A c \in Calcs :
          (Stepped(c) /\ c.req.user \notin users) =>
              /\ c.pc # "calc"
              /\ usage'[c.req.user] = usage[c.req.user]
              /\ peak'[c.req.user] = peak[c.req.user]
              /\ \A t \in TaskIds :
                    (tasks'[t].user = c.req.user /\ tasks'[t].status = COMPLETE)
                    => tasks[t].status = COMPLETE]_vars

====
